---------------------------- MODULE Spec2Model ----------------------------
(***************************************************************************)
(* Model of caniusepython3/pypi.py: the classifier _classifiy, the cached  *)
(* lookup supports_py3 and the date-keyed override store manual_overrides. *)
(*                                                                         *)
(* Python strings are sequences of tokens, each standing for a fixed       *)
(* substring.  Among the tokens of classifiers and of wheel tags no token  *)
(* is a prefix of another, so str.startswith on those strings is the       *)
(* prefix relation on the token sequences.                                 *)
(***************************************************************************)
EXTENDS Integers, Sequences, FiniteSets, TLC

VARIABLES
    response,     \* argument of _classifiy
    result,       \* outcome of the _classifiy call
    cpc,          \* position of the classifier run: "input" | "done"
    cache,        \* lru_cache of supports_py3: entries, least recently used first
    recency,      \* project names called so far, least recently called first
    answered,     \* project names for which some call returned a level
    last,         \* what the latest supports_py3 call did
    today,        \* datetime.date.today() as a day number
    ovcache,      \* lru_cache of _manual_overrides: at most one entry
    fetches,      \* per date, the requests for the overrides sent to GitHub
    ovlast        \* what the latest manual_overrides call did

cvars == <<response, result, cpc>>

lvars == <<cache, recency, answered, last>>

ovars == <<today, ovcache, fetches, ovlast>>

vars == <<response, result, cpc, cache, recency, answered, last, today, ovcache, fetches, ovlast>>

-----------------------------------------------------------------------------
(* Bounds of the classifier inputs *)

MaxClassifiers == 3

MaxArtifacts == 2

\* lru_cache(maxsize=1024) of supports_py3, run here with a small capacity
maxsize == 2

\* last day the clock reaches
MaxDay == 2

\* requests for the overrides followed per date
MaxFetches == 2

-----------------------------------------------------------------------------
(* Python values *)

NoneVal == "None"

Return(v) == [exc |-> NoneVal, value |-> v]

Raise(e) == [exc |-> e, value |-> NoneVal]

\* str.startswith(prefix)
StartsWith(s, prefix) ==
    /\ Len(s) >= Len(prefix)
    /\ SubSeq(s, 1, Len(prefix)) = prefix

\* the elements of a list
Range(seq) == {seq[i] : i \in 1..Len(seq)}

\* x in seq
In(x, seq) == \E i \in 1..Len(seq) : seq[i] = x

\* all sequences over S of length at most n
SeqUpTo(S, n) == UNION {[1..k -> S] : k \in 0..n}

\* class CanIUsePython3(enum.Enum)
CanIUsePython3 == {"unknown", "python2_only", "python3_supported", "python3_only"}

\* CanIUsePython3.__bool__
Bool(level) == level \notin {"python2_only", "unknown"}

-----------------------------------------------------------------------------
(* Trove classifiers *)

SEP == " :: "

\* 'Programming Language :: Python :: '
ClassifierPrefix == <<"Programming Language", SEP, "Python", SEP>>

\* 'Programming Language :: Python :: 3 :: Only'
Py3Only == ClassifierPrefix \o <<"3", SEP, "Only">>

\* 'Programming Language :: Python :: 2 :: Only'
Py2Only == ClassifierPrefix \o <<"2", SEP, "Only">>

\* 'Programming Language :: Python :: 2'
Py2Prefix == ClassifierPrefix \o <<"2">>

\* 'Programming Language :: Python :: 3'
Py3Prefix == ClassifierPrefix \o <<"3">>

\* classifier strings a registry response is drawn from
ClassifierPool ==
    { Py3Only,
      Py2Only,
      Py2Prefix \o <<".7">>,
      Py3Prefix \o <<".6">>,
      ClassifierPrefix \o <<"Implementation", SEP, "CPython">>,
      <<"Programming Language", SEP, "Rust">> }

-----------------------------------------------------------------------------
(* Release versions: packaging.version *)

\* the digit groups that occur in version strings
NumVal == ("0" :> 0) @@ ("1" :> 1) @@ ("2" :> 2) @@ ("9" :> 9) @@ ("10" :> 10)

NumStr(n) == CHOOSE t \in DOMAIN NumVal : NumVal[t] = n

\* index of the first element of s in set S, 0 when there is none
IndexOf(s, S) ==
    IF \E i \in 1..Len(s) : s[i] \in S
    THEN CHOOSE i \in 1..Len(s) : s[i] \in S /\ \A j \in 1..(i - 1) : s[j] \notin S
    ELSE 0

\* packaging.version.parse: optional leading "v", release segments, optional
\* pre-release "rc" in any case; pre = -1 stands for no pre-release
parse(v) ==
    LET body == IF v[1] \in {"v", "V"} THEN Tail(v) ELSE v
        rcAt == IndexOf(body, {"rc", "RC"})
        rel == SubSeq(body, 1, IF rcAt = 0 THEN Len(body) ELSE rcAt - 1)
        nums == SelectSeq(rel, LAMBDA t : t \in DOMAIN NumVal)
    IN  [release |-> [i \in 1..Len(nums) |-> NumVal[nums[i]]],
         pre |-> IF rcAt = 0 THEN -1 ELSE NumVal[body[rcAt + 1]]]

RECURSIVE StripZeros(_)
\* trailing zero segments do not take part in the comparison
StripZeros(r) ==
    IF r # <<>> /\ r[Len(r)] = 0 THEN StripZeros(SubSeq(r, 1, Len(r) - 1)) ELSE r

\* Python tuple comparison a < b
TupleLess(a, b) ==
    \E i \in 1..(Len(a) + 1) :
        /\ i <= Len(b)
        /\ \A j \in 1..(i - 1) : a[j] = b[j]
        /\ (i = Len(a) + 1 \/ a[i] < b[i])

\* Version.__lt__: release first, then a pre-release sorts before the final
VersionLess(a, b) ==
    LET ra == StripZeros(a.release)
        rb == StripZeros(b.release)
    IN  \/ TupleLess(ra, rb)
        \/ ra = rb /\ a.pre # -1 /\ (b.pre = -1 \/ a.pre < b.pre)

\* max(versions); the release keys used here parse to distinct versions
MaxVersion(vs) == CHOOSE m \in vs : \A w \in vs : ~VersionLess(m, w)

RECURSIVE Join(_, _)
\* sep.join(parts) for the digit groups of a release
Join(parts, sep) ==
    IF Len(parts) = 0 THEN <<>>
    ELSE IF Len(parts) = 1 THEN <<NumStr(parts[1])>>
    ELSE <<NumStr(parts[1]), sep>> \o Join(Tail(parts), sep)

\* Version.__str__: the normalized spelling
VersionStr(ver) ==
    Join(ver.release, ".") \o
    (IF ver.pre = -1 THEN <<>> ELSE <<"rc", NumStr(ver.pre)>>)

\* "1.9", "1.10" and the not normalized "2.0RC1"
V1_9 == <<"1", ".", "9">>

V1_10 == <<"1", ".", "10">>

V2_0RC1 == <<"2", ".", "0", "RC", "1">>

-----------------------------------------------------------------------------
(* Wheel file names: distlib.wheel.Wheel *)

RECURSIVE Split(_, _)
\* str.split(sep)
Split(s, sep) ==
    LET i == IndexOf(s, {sep})
    IN  IF i = 0 THEN <<s>>
        ELSE <<SubSeq(s, 1, i - 1)>> \o Split(SubSeq(s, i + 1, Len(s)), sep)

\* Wheel(filename): name-version-pyver-abi-arch.whl, or DistlibException;
\* the file names used here are full wheel names or names Wheel rejects
Wheel(filename) ==
    LET stem == SubSeq(filename, 1, Len(filename) - 1)
        fields == Split(stem, "-")
    IN  IF filename[Len(filename)] = ".whl" /\ Len(fields) = 5
        THEN Return([pyver |-> Split(fields[3], "."),
                     abi |-> Split(fields[4], "."),
                     arch |-> Split(fields[5], ".")])
        ELSE Raise("DistlibException")

\* Wheel.tags, in the order the property yields them
WheelTags(w) ==
    LET np == Len(w.pyver)
        na == Len(w.abi)
        nr == Len(w.arch)
    IN  [k \in 1..(np * na * nr) |->
            <<w.pyver[((k - 1) \div (na * nr)) + 1],
              w.abi[(((k - 1) \div nr) % na) + 1],
              w.arch[((k - 1) % nr) + 1]>>]

WheelFile(pyver, abi, arch) ==
    [filename |-> <<"pkg", "-", "1.0", "-">> \o pyver \o <<"-">> \o abi
                  \o <<"-">> \o arch \o <<".whl">>,
     packagetype |-> "bdist_wheel"]

\* artifact descriptors a release is drawn from
ArtifactPool ==
    { [filename |-> <<"pkg", "-", "1.0", ".tar.gz">>, packagetype |-> "sdist"],
      WheelFile(<<"cp", "2", "7">>, <<"cp27m">>, <<"linux_x86_64">>),
      WheelFile(<<"py", "3">>, <<"none">>, <<"any">>),
      WheelFile(<<"py", "2", ".", "py", "3">>, <<"none">>, <<"any">>),
      WheelFile(<<"pp", "3">>, <<"none">>, <<"any">>),
      [filename |-> <<"pkg", "-", "1.0", "-", "py", "3", "-", "none", ".whl">>,
       packagetype |-> "bdist_wheel"] }

-----------------------------------------------------------------------------
(* The classifier *)

\* pyver.startswith(('py2', 'cp2'))
IsPy2Tag(pyver) ==
    StartsWith(pyver, <<"py", "2">>) \/ StartsWith(pyver, <<"cp", "2">>)

\* pyver.startswith(('py3', 'cp3'))
IsPy3Tag(pyver) ==
    StartsWith(pyver, <<"py", "3">>) \/ StartsWith(pyver, <<"cp", "3">>)

RECURSIVE ScanWheels(_, _, _)
\* the loop over wheel_names; py2 and py3 start as None, read only for truth
ScanWheels(wheel_names, py2, py3) ==
    IF wheel_names = <<>> THEN Return(<<py2, py3>>)
    ELSE
        LET wheel == Wheel(Head(wheel_names))
        IN  IF wheel.exc # NoneVal THEN Raise(wheel.exc)
            ELSE
                LET tags == WheelTags(wheel.value)
                    new2 == py2 \/ \E k \in 1..Len(tags) : IsPy2Tag(tags[k][1])
                    new3 == py3 \/ \E k \in 1..Len(tags) :
                                      ~IsPy2Tag(tags[k][1]) /\ IsPy3Tag(tags[k][1])
                IN  IF new2 /\ new3 THEN Return(<<new2, new3>>)
                    ELSE ScanWheels(Tail(wheel_names), new2, new3)

\* Resolve with the py3 test ahead of the test for both
ResolvePy3First(py2, py3) ==
    IF py3 THEN "python3_only"
    ELSE IF py3 /\ py2 THEN "python3_supported"
    ELSE IF py2 THEN "python2_only"
    ELSE "unknown"

\* the final if/elif chain over py2 and py3
Resolve(py2, py3) ==
    IF py3 /\ py2 THEN "python3_supported"
    ELSE IF py3 THEN "python3_only"
    ELSE IF py2 THEN "python2_only"
    ELSE "unknown"

\* cs of the classifier branch: the two any() scans
ClassifierFlags(cs) ==
    <<\E c \in Range(cs) : StartsWith(c, Py2Prefix),
      \E c \in Range(cs) : StartsWith(c, Py3Prefix)>>

\* the else branch: wheels of the highest release
WheelBranch(resp) ==
    IF "releases" \notin DOMAIN resp \/ DOMAIN resp.releases = {}
    THEN Return("unknown")
    ELSE
        LET releases == resp.releases
            latest == VersionStr(MaxVersion({parse(v) : v \in DOMAIN releases}))
        IN  IF latest \notin DOMAIN releases THEN Raise("KeyError")
            ELSE
                LET wheels == SelectSeq(releases[latest],
                                  LAMBDA dl : dl.packagetype = "bdist_wheel")
                    wheel_names == [i \in 1..Len(wheels) |-> wheels[i].filename]
                IN  IF wheel_names = <<>> THEN Return("unknown")
                    ELSE
                        LET scan == ScanWheels(wheel_names, FALSE, FALSE)
                        IN  IF scan.exc # NoneVal THEN Raise(scan.exc)
                            ELSE Return(Resolve(scan.value[1], scan.value[2]))

\* ClassifierBranch with the two Only tests in the other order
ClassifierBranchPy2First(cs) ==
    IF In(Py2Only, cs) THEN Return("python2_only")
    ELSE IF In(Py3Only, cs) THEN Return("python3_only")
    ELSE Return(Resolve(ClassifierFlags(cs)[1], ClassifierFlags(cs)[2]))

\* the if branch: the project has a Python version classifier
ClassifierBranch(cs) ==
    IF In(Py3Only, cs) THEN Return("python3_only")
    ELSE IF In(Py2Only, cs) THEN Return("python2_only")
    ELSE Return(Resolve(ClassifierFlags(cs)[1], ClassifierFlags(cs)[2]))

\* _classifiy that takes only version classifiers for has_classifier
ClassifiyVersionsOnly(resp) ==
    IF "info" \notin DOMAIN resp THEN Raise("KeyError")
    ELSE IF "classifiers" \notin DOMAIN resp.info THEN Raise("KeyError")
    ELSE
        LET cs == resp.info.classifiers
            has_classifier ==
                \E c \in Range(cs) : StartsWith(c, Py2Prefix) \/ StartsWith(c, Py3Prefix)
        IN  IF has_classifier THEN ClassifierBranch(cs) ELSE WheelBranch(resp)

\* _classifiy(project_name, response); project_name is only logged
_classifiy(resp) ==
    IF "info" \notin DOMAIN resp THEN Raise("KeyError")
    ELSE IF "classifiers" \notin DOMAIN resp.info THEN Raise("KeyError")
    ELSE
        LET cs == resp.info.classifiers
            has_classifier == \E c \in Range(cs) : StartsWith(c, ClassifierPrefix)
        IN  IF has_classifier THEN ClassifierBranch(cs) ELSE WheelBranch(resp)

-----------------------------------------------------------------------------
(* Registry responses the classifier is run on *)

ClassifierLists == SeqUpTo(ClassifierPool, MaxClassifiers)

HasFamily(cs) == \E i \in 1..Len(cs) : StartsWith(cs[i], ClassifierPrefix)

ArtifactLists == SeqUpTo(ArtifactPool, MaxArtifacts)

\* what an older release holds
OlderArtifactLists == {<<>>} \cup {<<dl>> : dl \in ArtifactPool}

\* releases: none, one release, or "1.10" with the older "1.9"
ReleaseMaps ==
    {<<>>}
    \cup {v :> files : v \in {V1_10, V2_0RC1}, files \in ArtifactLists}
    \cup {(V1_9 :> older) @@ (V1_10 :> files) :
              older \in OlderArtifactLists, files \in ArtifactLists}

\* releases paired with lists that carry a Python classifier
SampleReleases ==
    { <<>>,
      V1_10 :> <<WheelFile(<<"py", "3">>, <<"none">>, <<"any">>)>>,
      V1_10 :> <<WheelFile(<<"cp", "2", "7">>, <<"cp27m">>, <<"linux_x86_64">>)>>,
      V2_0RC1 :> <<WheelFile(<<"py", "3">>, <<"none">>, <<"any">>)>> }

ReleasesFor(cs) == IF HasFamily(cs) THEN SampleReleases ELSE ReleaseMaps

Responses ==
    UNION { {[info |-> [classifiers |-> cs], releases |-> rel] :
                 rel \in ReleasesFor(cs)}
            \cup {[info |-> [classifiers |-> cs]]}
          : cs \in ClassifierLists }

\* payloads without info or without info.classifiers
Malformed ==
    {[releases |-> rel] : rel \in SampleReleases}
    \cup {[info |-> [name |-> <<"pkg">>], releases |-> rel] : rel \in SampleReleases}

-----------------------------------------------------------------------------
(* functools.lru_cache *)

Keys(entries) == {entries[i].key : i \in 1..Len(entries)}

\* a cache that never finds a key
CachedNever(entries, key) == FALSE

\* cache lookup by key
Cached(entries, key) == key \in Keys(entries)

Stored(entries, key) ==
    (CHOOSE e \in Range(entries) : e.key = key).value

Without(entries, key) == SelectSeq(entries, LAMBDA e : e.key # key)

\* a hit that leaves the order alone: first in, first out
TouchKeepOrder(entries, key) == entries

\* a hit moves the entry to the most recently used end
Touch(entries, key) ==
    Without(entries, key) \o <<[key |-> key, value |-> Stored(entries, key)]>>

\* a miss whose call returned: store, dropping the least recently used when full
Store(entries, key, value, size) ==
    LET kept == IF Len(entries) >= size THEN Tail(entries) ELSE entries
    IN  kept \o <<[key |-> key, value |-> value]>>

-----------------------------------------------------------------------------
(* The lookup service *)

\* project names: one more than the cache holds
ProjectNames == 1..(maxsize + 1)

StatusCodes == {200, 400, 404, 500}

\* a response body that is no JSON document
NotJson == [text |-> "<html>"]

JsonBody(doc) == [doc |-> doc]

\* request.json()
Json(body) ==
    IF "doc" \in DOMAIN body THEN Return(body.doc) ELSE Raise("ValueError")

\* bodies the registry answers with
Bodies ==
    { NotJson,
      JsonBody([info |-> [classifiers |-> <<Py3Only>>], releases |-> <<>>]),
      JsonBody([info |-> [classifiers |-> <<>>],
                releases |-> V1_10 :> <<WheelFile(<<"cp", "2", "7">>, <<"cp27m">>,
                                                  <<"linux_x86_64">>)>>]),
      JsonBody([releases |-> <<>>]) }

\* what _session.get does: raise, or hand back a response
Answers ==
    {[error |-> "ConnectionError"]}
    \cup {[status_code |-> st, body |-> b] : st \in StatusCodes, b \in Bodies}

\* LookupBody with > 400 for >= 400
LookupBodyAbove400(answer) ==
    IF "error" \in DOMAIN answer
    THEN [status |-> 0, parsed |-> FALSE, classified |-> FALSE,
          outcome |-> Raise(answer.error)]
    ELSE IF answer.status_code > 400
    THEN [status |-> answer.status_code, parsed |-> FALSE, classified |-> FALSE,
          outcome |-> Return("python3_supported")]
    ELSE IF Json(answer.body).exc # NoneVal
    THEN [status |-> answer.status_code, parsed |-> TRUE, classified |-> FALSE,
          outcome |-> Raise(Json(answer.body).exc)]
    ELSE [status |-> answer.status_code, parsed |-> TRUE, classified |-> TRUE,
          outcome |-> _classifiy(Json(answer.body).value)]

\* the body of supports_py3, run on a cache miss
LookupBody(answer) ==
    IF "error" \in DOMAIN answer
    THEN [status |-> 0, parsed |-> FALSE, classified |-> FALSE,
          outcome |-> Raise(answer.error)]
    ELSE IF answer.status_code >= 400
    THEN [status |-> answer.status_code, parsed |-> FALSE, classified |-> FALSE,
          outcome |-> Return("python3_supported")]
    ELSE IF Json(answer.body).exc # NoneVal
    THEN [status |-> answer.status_code, parsed |-> TRUE, classified |-> FALSE,
          outcome |-> Raise(Json(answer.body).exc)]
    ELSE [status |-> answer.status_code, parsed |-> TRUE, classified |-> TRUE,
          outcome |-> _classifiy(Json(answer.body).value)]

\* dropped: the project name whose entry the call pushed out of the cache, or 0
NoCall == [get |-> FALSE, status |-> 0, parsed |-> FALSE, classified |-> FALSE,
           dropped |-> 0, outcome |-> Return(NoneVal)]

Called(name) == SelectSeq(recency, LAMBDA n : n # name) \o <<name>>

\* supports_py3(project_name) through its lru_cache
supports_py3(project_name, answer) ==
    /\ recency' = Called(project_name)
    /\ IF Cached(cache, project_name)
       THEN /\ cache' = Touch(cache, project_name)
            /\ last' = [NoCall EXCEPT !.outcome = Return(Stored(cache, project_name))]
            /\ UNCHANGED answered
       ELSE LET run == LookupBody(answer)
            IN  /\ last' = [get |-> TRUE, status |-> run.status,
                            parsed |-> run.parsed, classified |-> run.classified,
                            dropped |-> IF run.outcome.exc = NoneVal
                                           /\ Len(cache) >= maxsize
                                        THEN cache[1].key ELSE 0,
                            outcome |-> run.outcome]
                /\ cache' = IF run.outcome.exc = NoneVal
                            THEN Store(cache, project_name, run.outcome.value, maxsize)
                            ELSE cache
                /\ answered' = IF run.outcome.exc = NoneVal
                               THEN answered \cup {project_name}
                               ELSE answered
    /\ UNCHANGED <<cvars, ovars>>

LookupNext == \E name \in ProjectNames, answer \in Answers : supports_py3(name, answer)

-----------------------------------------------------------------------------
(* The override store *)

\* str.lower on the tokens of project names
Lower(t) ==
    CASE t = "Foo" -> "foo"
      [] t = "Bar" -> "bar"
      [] OTHER -> t

NameSeparators == {"-", "_", "."}

RECURSIVE Collapse(_)
\* re.sub(r"[-_.]+", "-", name)
Collapse(name) ==
    IF name = <<>> THEN <<>>
    ELSE IF Head(name) \in NameSeparators
    THEN IF Len(name) > 1 /\ name[2] \in NameSeparators
         THEN Collapse(Tail(name))
         ELSE <<"-">> \o Collapse(Tail(name))
    ELSE <<Head(name)>> \o Collapse(Tail(name))

\* packaging.utils.canonicalize_name
canonicalize_name(name) ==
    LET c == Collapse(name) IN [i \in 1..Len(c) |-> Lower(c[i])]

\* overrides documents GitHub serves: project name -> reason
RemoteDocs ==
    { <<"Foo", "_", ".", "Bar">> :> "ported",
      (<<"foo", "-", "bar">> :> "ported") @@ (<<"baz">> :> "renamed") }

\* the overrides.json shipped with the package
BundledDoc == <<"Bar", ".", "baz">> :> "ported"

OverrideAnswers ==
    {[error |-> "ConnectionError"]}
    \cup {[status_code |-> st, body |-> b] :
             st \in {200, 404, 500},
             b \in {JsonBody(d) : d \in RemoteDocs} \cup {NotJson}}

CanonicalKeys(doc) == {canonicalize_name(k) : k \in DOMAIN doc}

\* the body of _manual_overrides, run on a cache miss
_manual_overrides(answer) ==
    IF "error" \in DOMAIN answer THEN Raise(answer.error)
    ELSE IF answer.status_code = 200
    THEN IF Json(answer.body).exc # NoneVal THEN Raise(Json(answer.body).exc)
         ELSE Return(CanonicalKeys(Json(answer.body).value))
    ELSE Return(CanonicalKeys(BundledDoc))

NoOverridesCall == [called |-> FALSE, get |-> FALSE, outcome |-> Return(NoneVal)]

\* manual_overrides(): _manual_overrides(date.today()) through lru_cache(maxsize=1)
manual_overrides(answer) ==
    /\ IF Cached(ovcache, today)
       THEN /\ ovcache' = Touch(ovcache, today)
            /\ ovlast' = [called |-> TRUE, get |-> FALSE,
                          outcome |-> Return(Stored(ovcache, today))]
            /\ UNCHANGED fetches
       ELSE LET run == _manual_overrides(answer)
            IN  /\ fetches[today] < MaxFetches
                /\ ovlast' = [called |-> TRUE, get |-> TRUE, outcome |-> run]
                /\ fetches' = [fetches EXCEPT ![today] = @ + 1]
                /\ ovcache' = IF run.exc = NoneVal
                              THEN Store(ovcache, today, run.value, 1)
                              ELSE ovcache
    /\ UNCHANGED <<today, cvars, lvars>>

\* midnight passes; the date only moves forward
NextDay ==
    /\ today < MaxDay
    /\ today' = today + 1
    /\ UNCHANGED <<ovcache, fetches, ovlast, cvars, lvars>>

OverridesNext ==
    \/ \E answer \in OverrideAnswers : manual_overrides(answer)
    \/ NextDay

-----------------------------------------------------------------------------
(* Running the classifier on one response *)

Classify ==
    /\ cpc = "input"
    /\ result' = _classifiy(response)
    /\ cpc' = "done"
    /\ UNCHANGED <<response, lvars, ovars>>

-----------------------------------------------------------------------------
(* The three components run apart *)

InitClassify ==
    /\ response \in Responses \cup Malformed
    /\ result = Return(NoneVal)
    /\ cpc = "input"
    /\ cache = <<>> /\ recency = <<>> /\ answered = {} /\ last = NoCall
    /\ today = 0 /\ ovcache = <<>> /\ fetches = [d \in 0..MaxDay |-> 0]
    /\ ovlast = NoOverridesCall

InitIdle ==
    /\ response = <<>>
    /\ result = Return(NoneVal)
    /\ cpc = "idle"
    /\ cache = <<>> /\ recency = <<>> /\ answered = {} /\ last = NoCall
    /\ today = 0 /\ ovcache = <<>> /\ fetches = [d \in 0..MaxDay |-> 0]
    /\ ovlast = NoOverridesCall

SpecClassify == InitClassify /\ [][Classify]_vars

SpecLookup == InitIdle /\ [][LookupNext]_vars

SpecOverrides == InitIdle /\ [][OverridesNext]_vars

-----------------------------------------------------------------------------
(* Properties of the classifier, under SpecClassify *)

WellFormed(resp) ==
    /\ "info" \in DOMAIN resp
    /\ "classifiers" \in DOMAIN resp.info

Classified == cpc = "done" /\ WellFormed(response)

\* C4: _classifiy is total: on every response, malformed ones included, it
\* returns one of the four levels and never raises, and a malformed payload
\* gives unknown.
C4_Total ==
    cpc = "done" =>
        /\ result.exc = NoneVal
        /\ result.value \in CanIUsePython3
        /\ (response \in Malformed => result.value = "unknown")

\* C5: a classifier list that holds 'Programming Language :: Python :: 3 ::
\* Only' is classified python3_only, whatever else the list and the releases
\* hold.
C5_Py3OnlyWins ==
    (Classified /\ Py3Only \in Range(response.info.classifiers))
        => result = Return("python3_only")

C5_Witness ==
    /\ Classified
    /\ Py3Only \in Range(response.info.classifiers)
    /\ Py2Only \in Range(response.info.classifiers)
    /\ "releases" \in DOMAIN response
    /\ DOMAIN response.releases # {}
    /\ result = Return("python3_only")

HasPy2Entry(cs) == \E c \in Range(cs) : StartsWith(c, Py2Prefix)

HasPy3NonOnlyEntry(cs) == \E c \in Range(cs) : StartsWith(c, Py3Prefix) /\ c # Py3Only

\* C6 as stated: every classifier list with both a 'Python :: 2...' entry and
\* a 'Python :: 3...' entry other than '3 :: Only' is classified
\* python3_supported.
C6_BothIsSupported ==
    (/\ Classified
     /\ HasPy2Entry(response.info.classifiers)
     /\ HasPy3NonOnlyEntry(response.info.classifiers))
        => result = Return("python3_supported")

\* C6 amended: every classifier list with both a 'Python :: 2...' entry and a
\* 'Python :: 3...' entry, and with neither the '3 :: Only' nor the
\* '2 :: Only' entry, is classified python3_supported.
C6_BothNoOnlyIsSupported ==
    (/\ Classified
     /\ HasPy2Entry(response.info.classifiers)
     /\ HasPy3NonOnlyEntry(response.info.classifiers)
     /\ Py3Only \notin Range(response.info.classifiers)
     /\ Py2Only \notin Range(response.info.classifiers))
        => result = Return("python3_supported")

C6_Witness ==
    /\ Classified
    /\ HasPy2Entry(response.info.classifiers)
    /\ HasPy3NonOnlyEntry(response.info.classifiers)
    /\ Py3Only \notin Range(response.info.classifiers)
    /\ Py2Only \notin Range(response.info.classifiers)
    /\ result = Return("python3_supported")

\* the release key of the highest version under numeric ordering
LatestKey(releases) ==
    CHOOSE k \in DOMAIN releases :
        \A j \in DOMAIN releases : ~VersionLess(parse(k), parse(j))

\* the pyver tags of one artifact: those of a well-formed wheel name, else none
PyverTags(dl) ==
    IF dl.packagetype = "bdist_wheel" /\ Wheel(dl.filename).exc = NoneVal
    THEN Range(Wheel(dl.filename).value.pyver)
    ELSE {}

\* what the wheels of the highest release alone say
LatestWheelsLevel(resp) ==
    IF "releases" \notin DOMAIN resp \/ DOMAIN resp.releases = {} THEN "unknown"
    ELSE
        LET tags == UNION {PyverTags(dl) :
                              dl \in Range(resp.releases[LatestKey(resp.releases)])}
            two == \E t \in tags : IsPy2Tag(t)
            three == \E t \in tags : IsPy3Tag(t)
        IN  CASE two /\ three -> "python3_supported"
              [] three /\ ~two -> "python3_only"
              [] two /\ ~three -> "python2_only"
              [] OTHER -> "unknown"

\* C7: without a 'Programming Language :: Python :: ' classifier the result is
\* the py2/py3 resolution over the wheel tags of the highest release under
\* numeric version ordering, and of no other release.
C7_LatestWheelsOnly ==
    (Classified /\ ~HasFamily(response.info.classifiers))
        => result = Return(LatestWheelsLevel(response))

\* what the classifiers alone say
ClassifiersLevel(cs) ==
    LET two == \E c \in Range(cs) : StartsWith(c, Py2Prefix)
        three == \E c \in Range(cs) : StartsWith(c, Py3Prefix)
    IN  CASE Py3Only \in Range(cs) -> "python3_only"
          [] Py3Only \notin Range(cs) /\ Py2Only \in Range(cs) -> "python2_only"
          [] OTHER -> IF two /\ three THEN "python3_supported"
                      ELSE IF three THEN "python3_only"
                      ELSE IF two THEN "python2_only"
                      ELSE "unknown"

-----------------------------------------------------------------------------
(* Properties of the lookup service, under SpecLookup *)

\* the project name of the call a step makes
Callee == recency'[Len(recency')]

\* C1 as stated: a name is requested from the registry at most once; once a
\* call with it has returned a level, every later call with it returns a
\* stored level without a request.
C1_AtMostOneRequest ==
    [][(recency' # <<>> /\ Callee \in answered)
           => /\ ~last'.get
              /\ last'.outcome.exc = NoneVal
              /\ last'.outcome.value \in CanIUsePython3]_vars

\* C1 amended: a call with a name whose result the cache holds issues no
\* request and returns the stored level; a call with any other name, one
\* never called, evicted, or whose call raised, issues the request.
C1_RequestIffNotCached ==
    [][recency' # <<>>
           => IF Callee \in Keys(cache)
              THEN /\ ~last'.get
                   /\ \E e \in Range(cache) :
                          e.key = Callee /\ last'.outcome = Return(e.value)
              ELSE last'.get]_vars

C1_Witness ==
    /\ recency # <<>>
    /\ ~last.get
    /\ last.outcome.value \in CanIUsePython3

\* C2: on a response with status >= 400 supports_py3 returns
\* python3_supported without raising, without parsing the body or running the
\* classifier, and the result is stored in the cache.
C2_ErrorStatusIsSupported ==
    last.status >= 400
        => /\ last.outcome = Return("python3_supported")
           /\ ~last.parsed
           /\ ~last.classified
           /\ cache # <<>>
           /\ cache[Len(cache)] =
                  [key |-> recency[Len(recency)], value |-> "python3_supported"]

C2_Witness ==
    /\ last.get
    /\ last.status = 404
    /\ last.outcome = Return("python3_supported")

\* the cached name called longest ago
LeastRecentlyUsed ==
    LET i == CHOOSE i \in 1..Len(recency) :
                 /\ recency[i] \in Keys(cache)
                 /\ \A j \in 1..(i - 1) : recency[j] \notin Keys(cache)
    IN  recency[i]

\* a step that stores a new name in a full cache
StoresInFull ==
    /\ Callee \notin Keys(cache)
    /\ last'.outcome.exc = NoneVal
    /\ Len(cache) = maxsize

\* C9: the cache never holds more than its capacity of distinct names; storing
\* a new name in a full cache drops exactly the least recently used one, no
\* other step drops any, and a call with a dropped name issues a new request.
C9_BoundedLru ==
    /\ [](Len(cache) <= maxsize /\ Cardinality(Keys(cache)) = Len(cache))
    /\ [][recency' # <<>>
              => /\ StoresInFull
                       => Keys(cache') =
                              (Keys(cache) \ {LeastRecentlyUsed}) \cup {Callee}
                 /\ ~StoresInFull => Keys(cache) \subseteq Keys(cache')
                 /\ (Callee \in Range(recency) /\ Callee \notin Keys(cache))
                       => last'.get]_vars

C9_Witness ==
    /\ last.dropped # 0
    /\ last.dropped \notin Keys(cache)
    /\ Len(cache) = maxsize

-----------------------------------------------------------------------------
(* Properties of the override store, under SpecOverrides *)

\* C3: manual_overrides never fails outward: whatever the remote fetch does,
\* the call returns a set of canonical names.
C3_NeverFailsOutward ==
    ovlast.called
        => /\ ovlast.outcome.exc = NoneVal
           /\ \A name \in ovlast.outcome.value : canonicalize_name(name) = name

\* C8: the overrides are requested from GitHub at most once per date; a call
\* on a date whose set is memoized sends no request.
C8_OneFetchPerDate == \A d \in 0..MaxDay : fetches[d] <= 1

=============================================================================
